---- MODULE Spec2Model ----
(***************************************************************************)
(* Conversation Risk Analysis Engine (src/palindrome.py).                  *)
(*                                                                         *)
(* Texts are TLA+ strings; Len, SubSeq and \o act on them character by     *)
(* character, so substring containment, lower-casing and trimming are      *)
(* computed on the characters as Python computes them.  The characters of  *)
(* a text are those up to U+00FF.                                          *)
(***************************************************************************)
EXTENDS Integers, Sequences, FiniteSets, TLC

VARIABLES
    lines,              \* main: the transcript, text.splitlines()
    messages,           \* parse_conversation's result, analyse's argument
    pc,                 \* position in main / analyse
    hiv_total,          \* analyse locals
    mh_total,
    hiv_matches,        \* Counter: sequence of [phrase, n] in insertion order
    mh_matches,
    urgent,
    sentiment_history,
    hiv_score,
    mh_score,
    trend,
    error,              \* name of the exception that ended analyse, or ""
    result,             \* <<>> until analyse returns, then <<its dict>>
    recs,               \* ndoh_recommendations' list
    sk_text,            \* score_keywords called on its own: arguments and result
    sk_model,
    sk_result

vars == <<lines, messages, pc, hiv_total, mh_total, hiv_matches, mh_matches, urgent, sentiment_history, hiv_score, mh_score, trend, error, result, recs, sk_text, sk_model, sk_result>>

(***************************************************************************)
(* Configurable keyword models.  A dict is the sequence of its items in    *)
(* insertion order.                                                        *)
(***************************************************************************)
HIV_KEYWORDS ==
    << [phrase |-> "unprotected sex", pts |-> 35],
       [phrase |-> "condomless", pts |-> 35],
       [phrase |-> "no condom", pts |-> 30],
       [phrase |-> "sexual assault", pts |-> 60],
       [phrase |-> "rape", pts |-> 60],
       [phrase |-> "bleeding after sex", pts |-> 35],
       [phrase |-> "partner hiv", pts |-> 40],
       [phrase |-> "partner positive", pts |-> 40],
       [phrase |-> "multiple partners", pts |-> 25],
       [phrase |-> "new partner", pts |-> 15],
       [phrase |-> "sti", pts |-> 20],
       [phrase |-> "ulcer", pts |-> 20],
       [phrase |-> "sore", pts |-> 15],
       [phrase |-> "discharge", pts |-> 15],
       [phrase |-> "recent exposure", pts |-> 30],
       [phrase |-> "72 hours", pts |-> 30] >>

\* MENTAL_KEYWORDS with the two self-harm phrases weighted below 110
MENTAL_KEYWORDS_lighter ==
    << [phrase |-> "stressed", pts |-> 20],
       [phrase |-> "anxious", pts |-> 15],
       [phrase |-> "anxiety", pts |-> 20],
       [phrase |-> "panic", pts |-> 30],
       [phrase |-> "panic attack", pts |-> 40],
       [phrase |-> "feeling down", pts |-> 30],
       [phrase |-> "hopeless", pts |-> 40],
       [phrase |-> "worthless", pts |-> 40],
       [phrase |-> "can't cope", pts |-> 40],
       [phrase |-> "overwhelmed", pts |-> 30],
       [phrase |-> "not sleeping", pts |-> 20],
       [phrase |-> "insomnia", pts |-> 15],
       [phrase |-> "suicide", pts |-> 120],
       [phrase |-> "kill myself", pts |-> 120],
       [phrase |-> "end my life", pts |-> 120],
       [phrase |-> "self harm", pts |-> 100],
       [phrase |-> "hurt myself", pts |-> 100] >>

MENTAL_KEYWORDS ==
    << [phrase |-> "stressed", pts |-> 20],
       [phrase |-> "anxious", pts |-> 15],
       [phrase |-> "anxiety", pts |-> 20],
       [phrase |-> "panic", pts |-> 30],
       [phrase |-> "panic attack", pts |-> 40],
       [phrase |-> "feeling down", pts |-> 30],
       [phrase |-> "hopeless", pts |-> 40],
       [phrase |-> "worthless", pts |-> 40],
       [phrase |-> "can't cope", pts |-> 40],
       [phrase |-> "overwhelmed", pts |-> 30],
       [phrase |-> "not sleeping", pts |-> 20],
       [phrase |-> "insomnia", pts |-> 15],
       [phrase |-> "suicide", pts |-> 120],
       [phrase |-> "kill myself", pts |-> 120],
       [phrase |-> "end my life", pts |-> 120],
       [phrase |-> "self harm", pts |-> 110],
       [phrase |-> "hurt myself", pts |-> 110] >>

URGENT_PHRASES ==
    << "suicide", "kill myself", "end my life", "self harm", "hurt myself", "rape", "sexual assault" >>

SENTIMENT_POS == << "good", "okay", "fine", "better", "improving", "relieved" >>

SENTIMENT_NEG == << "sad", "bad", "angry", "upset", "scared", "worried", "hopeless" >>

\* The phrases ndoh_recommendations tests a flag's phrase against.
CRITICAL_PHRASES == << "suicide", "kill myself", "self harm", "hurt myself" >>

\* The divisor and the scale of the normalisation, the clamp, the tier
\* thresholds and the trend window.
NormDivisor == 120

NormScale == 100

ScoreCap == 100

HighThreshold == 70

ModerateThreshold == 35

TrendWindow == 5

(***************************************************************************)
(* Python's str operations, on the characters.                             *)
(***************************************************************************)
\* The characters str.lower() changes, and what it changes them to: A-Z and
\* the upper-case letters U+00C0-U+00D6 and U+00D8-U+00DE.
UPPER == "ABCDEFGHIJKLMNOPQRSTUVWXYZÀÁÂÃÄÅÆÇÈÉÊËÌÍÎÏÐÑÒÓÔÕÖØÙÚÛÜÝÞ"

LOWER == "abcdefghijklmnopqrstuvwxyzàáâãäåæçèéêëìíîïðñòóôõöøùúûüýþ"

\* The characters str.strip() and the pattern's \s remove, those for which
\* str.isspace() holds: tab, line feed, U+000B, form feed, carriage return,
\* U+001C-U+001F, the space, U+0085 and U+00A0.
Whitespace == {"\t", "\n", "", "\f", "\r", "", "", "", "", " ", "", " "}

CharAt(s, k) == SubSeq(s, k, k)

UpperChars == {CharAt(UPPER, k) : k \in 1..Len(UPPER)}

\* str.lower() on one character.
lower_char(c) ==
    IF c \in UpperChars
    THEN CharAt(LOWER, CHOOSE k \in 1..Len(UPPER) : CharAt(UPPER, k) = c)
    ELSE c

RECURSIVE lower_from(_, _)
lower_from(s, k) ==
    IF k > Len(s) THEN "" ELSE lower_char(CharAt(s, k)) \o lower_from(s, k + 1)

\* str.lower()
lower(s) == lower_from(s, 1)

RECURSIVE lstrip(_)
lstrip(s) ==
    IF Len(s) > 0 /\ CharAt(s, 1) \in Whitespace THEN lstrip(SubSeq(s, 2, Len(s))) ELSE s

RECURSIVE rstrip(_)
rstrip(s) ==
    IF Len(s) > 0 /\ CharAt(s, Len(s)) \in Whitespace THEN rstrip(SubSeq(s, 1, Len(s) - 1)) ELSE s

\* str.strip()
strip(s) == rstrip(lstrip(s))

\* Python's `p in t` on strings: p occurs in t as a contiguous substring.
Contains(p, t) ==
    \E k \in 1..(Len(t) - Len(p) + 1) : SubSeq(t, k, k + Len(p) - 1) = p

\* The least index k >= from with s[k] = c, 0 when there is none.
Find(s, c, from) ==
    IF \E k \in from..Len(s) : CharAt(s, k) = c
    THEN CHOOSE k \in from..Len(s) : CharAt(s, k) = c /\ \A j \in from..(k - 1) : CharAt(s, j) # c
    ELSE 0

clean(text) == strip(lower(text))

(***************************************************************************)
(* parse_conversation: the pattern of line 94 on one line: "[", a lazy     *)
(* group, "]", whitespace, a lazy group, ":", whitespace, the rest.  The   *)
(* lazy groups end at the first "]" and at the first ":" after it; a line  *)
(* matches iff it starts with "[", holds a "]" and a ":" after the first   *)
(* "]".                                                                    *)
(***************************************************************************)
LineMatches(line) ==
    /\ Len(line) > 0
    /\ CharAt(line, 1) = "["
    /\ Find(line, "]", 2) # 0
    /\ Find(line, ":", Find(line, "]", 2) + 1) # 0

ParseLine(line) ==
    LET rb == Find(line, "]", 2)
        col == Find(line, ":", rb + 1)
    IN  [ timestamp |-> SubSeq(line, 2, rb - 1),
          speaker |-> SubSeq(lstrip(SubSeq(line, rb + 1, col)), 1, Len(lstrip(SubSeq(line, rb + 1, col))) - 1),
          message |-> strip(SubSeq(line, col + 1, Len(line))) ]

RECURSIVE parse_conversation(_)
parse_conversation(ls) ==
    IF ls = << >> THEN << >>
    ELSE IF LineMatches(Head(ls))
         THEN << ParseLine(Head(ls)) >> \o parse_conversation(Tail(ls))
         ELSE parse_conversation(Tail(ls))

(***************************************************************************)
(* collections.Counter, as the sequence of its items in insertion order.   *)
(***************************************************************************)
CounterHas(c, key) == \E k \in 1..Len(c) : c[k].phrase = key

\* c[key], which is 0 for a missing key
CounterGet(c, key) ==
    IF CounterHas(c, key) THEN c[CHOOSE k \in 1..Len(c) : c[k].phrase = key].n ELSE 0

\* c[key] = n, as dict.update would: the count is replaced, not added to
CounterAdd_overwrite(c, key, n) ==
    IF CounterHas(c, key)
    THEN [k \in 1..Len(c) |-> IF c[k].phrase = key THEN [phrase |-> key, n |-> n] ELSE c[k]]
    ELSE Append(c, [phrase |-> key, n |-> n])

\* c[key] += n: a present key keeps its place, a new key is appended
CounterAdd(c, key, n) ==
    IF CounterHas(c, key)
    THEN [k \in 1..Len(c) |-> IF c[k].phrase = key THEN [phrase |-> key, n |-> c[k].n + n] ELSE c[k]]
    ELSE Append(c, [phrase |-> key, n |-> n])

RECURSIVE CounterUpdate(_, _)
\* c.update(other): other's items added in other's order
CounterUpdate(c, other) ==
    IF other = << >> THEN c
    ELSE CounterUpdate(CounterAdd(c, Head(other).phrase, Head(other).n), Tail(other))

(***************************************************************************)
(* score_keywords                                                          *)
(***************************************************************************)
\* item placed after every element whose phrase is at least as long (stable)
InsertByLen(s, item) ==
    LET p == Cardinality({k \in 1..Len(s) : Len(s[k].phrase) >= Len(item.phrase)})
    IN  SubSeq(s, 1, p) \o << item >> \o SubSeq(s, p + 1, Len(s))

RECURSIVE sorted_by_len(_)
\* sorted(model.items(), key=lambda x: -len(x[0]))
sorted_by_len(model) ==
    IF model = << >> THEN << >>
    ELSE InsertByLen(sorted_by_len(SubSeq(model, 1, Len(model) - 1)), model[Len(model)])

\* a phrase inside an already matched longer phrase is skipped
ScoreStep_suppress_contained(item, t, acc) ==
    IF Contains(item.phrase, t) /\ ~\E k \in 1..Len(acc.matches) : Contains(item.phrase, acc.matches[k].phrase)
    THEN [score |-> acc.score + item.pts, matches |-> CounterAdd(acc.matches, item.phrase, 1)]
    ELSE acc

\* one pass of the for loop: a phrase in t adds its points and counts once
ScoreStep(item, t, acc) ==
    IF Contains(item.phrase, t)
    THEN [score |-> acc.score + item.pts, matches |-> CounterAdd(acc.matches, item.phrase, 1)]
    ELSE acc

RECURSIVE ScoreLoop(_, _, _)
ScoreLoop(items, t, acc) ==
    IF items = << >> THEN acc
    ELSE ScoreLoop(Tail(items), t, ScoreStep(Head(items), t, acc))

score_keywords(text, model) ==
    ScoreLoop(sorted_by_len(model), clean(text), [score |-> 0, matches |-> << >>])

(***************************************************************************)
(* sentiment_score                                                         *)
(***************************************************************************)
\* sum(1 for w in words if w in t)
CountPresent(words, t) == Cardinality({k \in 1..Len(words) : Contains(words[k], t)})

sentiment_score(text) ==
    CountPresent(SENTIMENT_POS, clean(text)) - CountPresent(SENTIMENT_NEG, clean(text))

(***************************************************************************)
(* analyse: the urgent-flag loop, the normalisation, the trend             *)
(***************************************************************************)
UrgentFlag(u, m) ==
    [phrase |-> u, timestamp |-> m.timestamp, speaker |-> m.speaker, message |-> m.message]

\* the test made on the message as written, not lower-cased
UrgentStep_case_sensitive(k, m, acc) ==
    IF Contains(URGENT_PHRASES[k], strip(m.message)) THEN Append(acc, UrgentFlag(URGENT_PHRASES[k], m)) ELSE acc

\* the body of `for u in URGENT_PHRASES`, for the k-th phrase
UrgentStep(k, m, acc) ==
    IF Contains(URGENT_PHRASES[k], clean(m.message)) THEN Append(acc, UrgentFlag(URGENT_PHRASES[k], m)) ELSE acc

RECURSIVE UrgentLoop(_, _, _)
\* for u in URGENT_PHRASES, from the k-th phrase on
UrgentLoop(k, m, acc) ==
    IF k > Len(URGENT_PHRASES) THEN acc
    ELSE UrgentLoop(k + 1, m, UrgentStep(k, m, acc))

Min(a, b) == IF a <= b THEN a ELSE b

Max(a, b) == IF a >= b THEN a ELSE b

\* the scaling without the clamp
normalize_unclamped(total) == (total * NormScale) \div NormDivisor

\* min(100, int((total / 120) * 100)).  The float product truncates to the
\* integer quotient for every total below 120, and is at least 100 from
\* 120 on, so the clamped value is that of the integer division.
normalize(total) == Min(ScoreCap, (total * NormScale) \div NormDivisor)

RECURSIVE SumSeq(_)
SumSeq(s) == IF s = << >> THEN 0 ELSE Head(s) + SumSeq(Tail(s))

\* sentiment_history[-6:]: a window one value too long
LastWindow_six(h) == SubSeq(h, Max(1, Len(h) - TrendWindow), Len(h))

\* sentiment_history[-5:]
LastWindow(h) == SubSeq(h, Max(1, Len(h) - TrendWindow + 1), Len(h))

\* sentiment_history[:5]
FirstWindow(h) == SubSeq(h, 1, Min(TrendWindow, Len(h)))

\* statistics.mean of a non-empty list of ints, as the exact fraction
mean(s) == [num |-> SumSeq(s), den |-> Len(s)]

MeanGreater(a, b) == a.num * b.den > b.num * a.den

\* the conditional expression of lines 170-174, on a non-empty history
sentiment_trend(h) ==
    IF MeanGreater(mean(LastWindow(h)), mean(FirstWindow(h))) THEN "Improving"
    ELSE IF MeanGreater(mean(FirstWindow(h)), mean(LastWindow(h))) THEN "Worsening"
    ELSE "Stable"

(***************************************************************************)
(* ndoh_recommendations.  A recommendation string is kept up to its dash.  *)
(***************************************************************************)
\* thresholds compared with > where the code has >=
hiv_recommendation_strict(hiv) ==
    IF hiv > HighThreshold THEN "HIV Risk HIGH"
    ELSE IF hiv > ModerateThreshold THEN "HIV Risk MODERATE"
    ELSE "HIV Risk LOW"

hiv_recommendation(hiv) ==
    IF hiv >= HighThreshold THEN "HIV Risk HIGH"
    ELSE IF hiv >= ModerateThreshold THEN "HIV Risk MODERATE"
    ELSE "HIV Risk LOW"

\* any urgent phrase counted as critical
AnyCritical_all_urgent(urg) ==
    \E k \in 1..Len(urg) : \E j \in 1..Len(URGENT_PHRASES) : urg[k].phrase = URGENT_PHRASES[j]

\* any(u["phrase"] in [...] for u in urgent)
AnyCritical(urg) ==
    \E k \in 1..Len(urg) : \E j \in 1..Len(CRITICAL_PHRASES) : urg[k].phrase = CRITICAL_PHRASES[j]

\* the numeric HIGH tier tested before the critical flags
mental_recommendation_score_first(mental, urg) ==
    IF mental >= HighThreshold THEN "Mental Health HIGH"
    ELSE IF \E k \in 1..Len(urg) : urg[k].phrase \in {"suicide", "kill myself", "self harm", "hurt myself"} THEN "Mental Health CRITICAL"
    ELSE IF mental >= ModerateThreshold THEN "Mental Health MODERATE"
    ELSE "Mental Health LOW"

mental_recommendation(mental, urg) ==
    IF AnyCritical(urg) THEN "Mental Health CRITICAL"
    ELSE IF mental >= HighThreshold THEN "Mental Health HIGH"
    ELSE IF mental >= ModerateThreshold THEN "Mental Health MODERATE"
    ELSE "Mental Health LOW"

ndoh_recommendations(res) ==
    Append(Append(<< >>, hiv_recommendation(res.scores.hiv)), mental_recommendation(res.scores.mental, res.urgent))

(***************************************************************************)
(* Bounds and input sets.                                                  *)
(***************************************************************************)
\* the longest transcript, in lines
MaxLines == 3

\* the longest sentiment history the trend is derived from on its own
MaxHist == 6

\* the most urgent flags of a result handed to ndoh_recommendations directly
MaxFlags == 2

\* the most fragments of a text handed to score_keywords directly
MaxFrags == 3

\* The third line holds U+001F before the speaker, a tab and U+001F before
\* the message and U+00A0 and a tab after it.
RawLines ==
    { "[01/01/2024, 10:00] Alice: I had unprotected sex and feel hopeless",
      "[01/01/2024, 10:05] Bob: I want to hurt myself, even SUICIDE",
      "[01/01/2024, 10:07] Bob:\t Panic attack gone, no panic, feeling better  \t",
      "[02/01/2024, 09:30] Alice : I will end my life after the rape",
      "[02/01/2024, 09:40] Bob: sometimes I hurt myself",
      "[note] Bob left the chat" }

SeqsUpTo(S, n) == UNION {[1..k -> S] : k \in 0..n}

\* per-utterance sentiment values of the histories tried
SentimentValues == -2..2

\* scores of the results tried: the tier boundaries and the ends
ScoreValues == {0, 1, 34, 35, 36, 69, 70, 71, 99, 100}

FlagsTried == {[phrase |-> URGENT_PHRASES[k], timestamp |-> "01/01/2024, 10:00", speaker |-> "Alice", message |-> URGENT_PHRASES[k]] : k \in 1..Len(URGENT_PHRASES)}

ResultsTried ==
    [ scores : [hiv : ScoreValues, mental : ScoreValues],
      matches : {[hiv |-> << >>, mental |-> << >>]},
      urgent : SeqsUpTo(FlagsTried, MaxFlags),
      sentiment_trend : {"Stable"},
      raw_sentiments : {<< 0 >>} ]

Fragments == {"panic", " attack", "PANIC", "hopeless", "g", "rape", "sti", " no condom "}

RECURSIVE Join(_)
Join(fs) == IF fs = << >> THEN "" ELSE Head(fs) \o Join(Tail(fs))

TextsTried == {Join(fs) : fs \in SeqsUpTo(Fragments, MaxFrags)}

(***************************************************************************)
(* main and analyse as a state machine.                                    *)
(***************************************************************************)
\* the locals of analyse as lines 133-139 set them, nothing returned yet
Fresh ==
    /\ messages = << >>
    /\ hiv_total = 0
    /\ mh_total = 0
    /\ hiv_matches = << >>
    /\ mh_matches = << >>
    /\ urgent = << >>
    /\ sentiment_history = << >>
    /\ hiv_score = 0
    /\ mh_score = 0
    /\ trend = ""
    /\ error = ""
    /\ result = << >>
    /\ recs = << >>

NoScoreCall ==
    /\ sk_text = ""
    /\ sk_model = << >>
    /\ sk_result = << >>

Init ==
    /\ lines \in SeqsUpTo(RawLines, MaxLines)
    /\ pc = "parse"
    /\ Fresh
    /\ NoScoreCall

\* main, line 301
Parse ==
    /\ pc = "parse"
    /\ messages' = parse_conversation(lines)
    /\ pc' = "loop"
    /\ UNCHANGED <<lines, hiv_total, mh_total, hiv_matches, mh_matches, urgent, sentiment_history, hiv_score, mh_score, trend, error, result, recs, sk_text, sk_model, sk_result>>

\* one iteration of `for m in messages`, lines 141-164
ProcessUtterance ==
    /\ pc = "loop"
    /\ Len(sentiment_history) < Len(messages)
    /\ LET m == messages[Len(sentiment_history) + 1]
           h == score_keywords(m.message, HIV_KEYWORDS)
           mh == score_keywords(m.message, MENTAL_KEYWORDS)
       IN  /\ sentiment_history' = Append(sentiment_history, sentiment_score(m.message))
           /\ hiv_total' = hiv_total + h.score
           /\ mh_total' = mh_total + mh.score
           /\ hiv_matches' = CounterUpdate(hiv_matches, h.matches)
           /\ mh_matches' = CounterUpdate(mh_matches, mh.matches)
           /\ urgent' = UrgentLoop(1, m, urgent)
    /\ UNCHANGED <<lines, messages, pc, hiv_score, mh_score, trend, error, result, recs, sk_text, sk_model, sk_result>>

\* lines 167-168, once the loop has ended
Normalize ==
    /\ pc = "loop"
    /\ Len(sentiment_history) = Len(messages)
    /\ hiv_score' = normalize(hiv_total)
    /\ mh_score' = normalize(mh_total)
    /\ pc' = "trend"
    /\ UNCHANGED <<lines, messages, hiv_total, mh_total, hiv_matches, mh_matches, urgent, sentiment_history, trend, error, result, recs, sk_text, sk_model, sk_result>>

\* lines 170-174: statistics.mean raises StatisticsError on an empty list
DeriveTrend ==
    /\ pc = "trend"
    /\ IF sentiment_history = << >>
       THEN /\ error' = "StatisticsError"
            /\ pc' = "failed"
            /\ UNCHANGED trend
       ELSE /\ trend' = sentiment_trend(sentiment_history)
            /\ pc' = "return"
            /\ UNCHANGED error
    /\ UNCHANGED <<lines, messages, hiv_total, mh_total, hiv_matches, mh_matches, urgent, sentiment_history, hiv_score, mh_score, result, recs, sk_text, sk_model, sk_result>>

\* lines 176-182
Return ==
    /\ pc = "return"
    /\ result' = << [ scores |-> [hiv |-> hiv_score, mental |-> mh_score],
                      matches |-> [hiv |-> hiv_matches, mental |-> mh_matches],
                      urgent |-> urgent,
                      sentiment_trend |-> trend,
                      raw_sentiments |-> sentiment_history ] >>
    /\ pc' = "done"
    /\ UNCHANGED <<lines, messages, hiv_total, mh_total, hiv_matches, mh_matches, urgent, sentiment_history, hiv_score, mh_score, trend, error, recs, sk_text, sk_model, sk_result>>

\* make_report, line 287: the recommendations of the returned result
Recommend ==
    /\ pc = "done"
    /\ recs' = ndoh_recommendations(result[1])
    /\ pc' = "reported"
    /\ UNCHANGED <<lines, messages, hiv_total, mh_total, hiv_matches, mh_matches, urgent, sentiment_history, hiv_score, mh_score, trend, error, result, sk_text, sk_model, sk_result>>

Next == Parse \/ ProcessUtterance \/ Normalize \/ DeriveTrend \/ Return \/ Recommend

Spec == Init /\ [][Next]_vars

(***************************************************************************)
(* The trend step of analyse on sentiment histories of up to MaxHist       *)
(* values.                                                                 *)
(***************************************************************************)
InitTrend ==
    /\ lines = << >>
    /\ pc = "trend"
    /\ sentiment_history \in SeqsUpTo(SentimentValues, MaxHist)
    /\ messages = << >>
    /\ hiv_total = 0
    /\ mh_total = 0
    /\ hiv_matches = << >>
    /\ mh_matches = << >>
    /\ urgent = << >>
    /\ hiv_score = 0
    /\ mh_score = 0
    /\ trend = ""
    /\ error = ""
    /\ result = << >>
    /\ recs = << >>
    /\ NoScoreCall

SpecTrend == InitTrend /\ [][DeriveTrend]_vars

(***************************************************************************)
(* ndoh_recommendations on any result: scores and urgent flags that need   *)
(* not come from one run of analyse.                                       *)
(***************************************************************************)
InitRec ==
    /\ lines = << >>
    /\ pc = "done"
    /\ result \in {<< r >> : r \in ResultsTried}
    /\ messages = << >>
    /\ hiv_total = 0
    /\ mh_total = 0
    /\ hiv_matches = << >>
    /\ mh_matches = << >>
    /\ urgent = << >>
    /\ sentiment_history = << >>
    /\ hiv_score = 0
    /\ mh_score = 0
    /\ trend = ""
    /\ error = ""
    /\ recs = << >>
    /\ NoScoreCall

SpecRec == InitRec /\ [][Recommend]_vars

(***************************************************************************)
(* score_keywords on texts put together from fragments, with either        *)
(* lexicon.                                                                *)
(***************************************************************************)
InitScore ==
    /\ lines = << >>
    /\ pc = "score"
    /\ Fresh
    /\ sk_text \in TextsTried
    /\ sk_model \in {HIV_KEYWORDS, MENTAL_KEYWORDS}
    /\ sk_result = << >>

ScoreKeywords ==
    /\ pc = "score"
    /\ sk_result' = << score_keywords(sk_text, sk_model) >>
    /\ pc' = "scored"
    /\ UNCHANGED <<lines, messages, hiv_total, mh_total, hiv_matches, mh_matches, urgent, sentiment_history, hiv_score, mh_score, trend, error, result, recs, sk_text, sk_model>>

SpecScore == InitScore /\ [][ScoreKeywords]_vars

(***************************************************************************)
(* Properties.                                                             *)
(***************************************************************************)
Returned == pc \in {"done", "reported"}

\* floor(total / 120 * 100) clamped at 100, stated without the division
IsNormalized(score, total) ==
    IF total * NormScale >= ScoreCap * NormDivisor
    THEN score = ScoreCap
    ELSE score * NormDivisor <= total * NormScale /\ total * NormScale < (score + 1) * NormDivisor

\* C1: the running totals are never negative after any prefix of the
\* utterances, and each score of a returned result is an integer in 0..100
\* equal to min(100, floor(total / 120 * 100)) of its accumulated total.
C1_ScoresInRange ==
    /\ hiv_total >= 0
    /\ mh_total >= 0
    /\ Returned =>
          /\ result[1].scores.hiv \in 0..100
          /\ result[1].scores.mental \in 0..100
          /\ IsNormalized(result[1].scores.hiv, hiv_total)
          /\ IsNormalized(result[1].scores.mental, mh_total)

\* a result whose mental total passed 120 and was clamped, with an HIV
\* score strictly inside the range
C1_Witness ==
    /\ pc = "done"
    /\ mh_total > NormDivisor
    /\ result[1].scores.mental = 100
    /\ result[1].scores.hiv > 0
    /\ result[1].scores.hiv < 100

HasCriticalFlag(urg) ==
    \E k \in 1..Len(urg) : urg[k].phrase \in {"suicide", "kill myself", "self harm", "hurt myself"}

\* C2: whenever a flag of the result has a phrase in {suicide, kill myself,
\* self harm, hurt myself}, the second recommendation is the CRITICAL tier,
\* whatever the mental score, the HIV score and the other flags are.
C2_CriticalOverride ==
    (pc = "reported" /\ HasCriticalFlag(result[1].urgent)) => recs[2] = "Mental Health CRITICAL"

\* mental == 0, the critical flag behind a non-critical one
C2_Witness ==
    /\ pc = "reported"
    /\ result[1].scores.mental = 0
    /\ result[1].scores.hiv = 100
    /\ Len(result[1].urgent) = 2
    /\ result[1].urgent[1].phrase = "rape"
    /\ result[1].urgent[2].phrase = "self harm"
    /\ recs[2] = "Mental Health CRITICAL"

\* C3: with zero utterances analyse fails with the named empty-transcript
\* error, raised before the normalisation: once the loop has ended over no
\* utterance the run is in the failed state with that error, and no
\* result is returned.
C3_EmptyTranscriptError ==
    (messages = << >> /\ pc \notin {"parse", "loop"}) =>
        /\ pc = "failed"
        /\ error = "EmptyTranscriptError"
        /\ result = << >>

\* the utterances the loop has processed
Processed == Len(sentiment_history)

RECURSIVE LoweredUpTo(_)
\* the lower-cased messages of the first k utterances
LoweredUpTo(k) ==
    IF k = 0 THEN << >> ELSE Append(LoweredUpTo(k - 1), lower(messages[k].message))

\* the (utterance, critical phrase) pairs whose phrase is a substring of
\* the utterance's lower-cased message, low[i] being that of utterance i
UrgentPairs(low) ==
    {q \in (1..Len(low)) \X (1..Len(URGENT_PHRASES)) : Contains(URGENT_PHRASES[q[2]], low[q[1]])}

\* pairs of P before q: an earlier utterance, or the same one and an
\* earlier phrase
PairsBefore(P, q) ==
    Cardinality({r \in P : r[1] < q[1] \/ (r[1] = q[1] /\ r[2] < q[2])})

\* C4: after any prefix of the transcript the urgent list holds exactly one
\* flag per (utterance, critical phrase) pair whose phrase is a substring
\* of the lower-cased message, ordered by utterance position and, within
\* an utterance, by the phrase's position in the critical-phrase list.
C4_UrgentFlagsOrdered ==
    LET P == UrgentPairs(LoweredUpTo(Processed))
    IN  /\ Len(urgent) = Cardinality(P)
        /\ \A q \in P :
              urgent[PairsBefore(P, q) + 1] =
                  [ phrase |-> URGENT_PHRASES[q[2]],
                    timestamp |-> messages[q[1]].timestamp,
                    speaker |-> messages[q[1]].speaker,
                    message |-> messages[q[1]].message ]

\* a flagged utterance, then one whose text names "hurt myself" before
\* "suicide": its flags stand in list order, suicide first
C4_Witness ==
    /\ Len(urgent) >= 3
    /\ urgent[1].timestamp # urgent[2].timestamp
    /\ urgent[2].phrase = "suicide"
    /\ urgent[3].phrase = "hurt myself"
    /\ urgent[2].message = "I want to hurt myself, even SUICIDE"
    /\ urgent[3].message = urgent[2].message

RECURSIVE SumPts(_, _)
\* the sum of the weights of the items of model at the indexes S
SumPts(model, S) ==
    IF S = {} THEN 0
    ELSE LET k == CHOOSE k \in S : TRUE IN model[k].pts + SumPts(model, S \ {k})

PhrasesIn(model, text) == {k \in 1..Len(model) : Contains(model[k].phrase, lower(text))}

\* C5: score_keywords returns the sum of the weights of all the lexicon's
\* phrases that are substrings of the lower-cased text, each counted once;
\* a text containing "panic attack" scores "panic attack" and "panic".
C5_ScoreIsWeightSum ==
    pc = "scored" =>
        /\ sk_result[1].score = SumPts(sk_model, PhrasesIn(sk_model, sk_text))
        /\ (sk_model = MENTAL_KEYWORDS /\ Contains("panic attack", lower(sk_text))) =>
              /\ sk_result[1].score >= 70
              /\ CounterGet(sk_result[1].matches, "panic attack") = 1
              /\ CounterGet(sk_result[1].matches, "panic") = 1

\* "panic" twice, once inside "PANIC attack": both phrases score, each
\* once, 40 + 30
C5_Witness ==
    /\ pc = "scored"
    /\ sk_model = MENTAL_KEYWORDS
    /\ sk_text = "PANIC attackpanic"
    /\ sk_result[1].score = 70

RECURSIVE SumRange(_, _, _)
\* h[a] + ... + h[b]
SumRange(h, a, b) == IF a > b THEN 0 ELSE h[b] + SumRange(h, a, b - 1)

\* C6: on a non-empty history of n values the trend is Improving iff the
\* mean of the last min(5, n) values is strictly greater than the mean of
\* the first min(5, n), Worsening iff strictly less, Stable iff equal; so
\* a history of 1 to 5 values has trend Stable.
C6_TrendByWindowMeans ==
    pc = "return" =>
        LET n == Len(sentiment_history)
            w == IF n < 5 THEN n ELSE 5
            last == SumRange(sentiment_history, n - w + 1, n)
            first == SumRange(sentiment_history, 1, w)
        IN  /\ trend = "Improving" <=> last * w > first * w
            /\ trend = "Worsening" <=> last * w < first * w
            /\ trend = "Stable" <=> last * w = first * w
            /\ n <= 5 => trend = "Stable"

\* six values: the windows differ in one value at each end
C6_Witness ==
    /\ pc = "return"
    /\ sentiment_history = << -2, 1, 0, 0, 1, -1 >>
    /\ trend = "Improving"

\* C7: with no flag in {suicide, kill myself, self harm, hurt myself} the
\* mental-health tier follows the score alone: HIGH from 70, MODERATE from
\* 35 to 69, LOW below 35; flags for end my life, rape or sexual assault
\* never select CRITICAL.
C7_MentalTierByScore ==
    (pc = "reported" /\ ~HasCriticalFlag(result[1].urgent)) =>
        /\ result[1].scores.mental >= 70 => recs[2] = "Mental Health HIGH"
        /\ (result[1].scores.mental >= 35 /\ result[1].scores.mental < 70) => recs[2] = "Mental Health MODERATE"
        /\ result[1].scores.mental < 35 => recs[2] = "Mental Health LOW"
        /\ recs[2] # "Mental Health CRITICAL"

C7_Witness ==
    /\ pc = "reported"
    /\ Len(result[1].urgent) = 2
    /\ result[1].urgent[1].phrase = "end my life"
    /\ result[1].urgent[2].phrase = "sexual assault"
    /\ result[1].scores.mental = 69
    /\ recs[2] = "Mental Health MODERATE"

\* C8: ndoh_recommendations returns exactly two strings, the HIV guidance
\* first and the mental-health guidance second, and the HIV tier is HIGH
\* iff hiv >= 70, MODERATE iff 35 <= hiv < 70, LOW iff hiv < 35, whatever
\* the mental score and the urgent flags are.
C8_TwoRecsHivTier ==
    pc = "reported" =>
        /\ Len(recs) = 2
        /\ recs[1] \in {"HIV Risk HIGH", "HIV Risk MODERATE", "HIV Risk LOW"}
        /\ recs[2] \in {"Mental Health CRITICAL", "Mental Health HIGH", "Mental Health MODERATE", "Mental Health LOW"}
        /\ recs[1] = "HIV Risk HIGH" <=> result[1].scores.hiv >= 70
        /\ recs[1] = "HIV Risk MODERATE" <=> (result[1].scores.hiv >= 35 /\ result[1].scores.hiv < 70)
        /\ recs[1] = "HIV Risk LOW" <=> result[1].scores.hiv < 35

C8_Witness ==
    /\ pc = "reported"
    /\ result[1].scores.hiv = 70
    /\ result[1].scores.mental = 0
    /\ HasCriticalFlag(result[1].urgent)
    /\ recs = << "HIV Risk HIGH", "Mental Health CRITICAL" >>

\* the utterances whose lower-cased message, low[k], contains phrase
UtterancesWith(phrase, low) == {k \in 1..Len(low) : Contains(phrase, low[k])}

TallyIsPresenceCount(tally, model, low) ==
    /\ \A k \in 1..Len(model) : CounterGet(tally, model[k].phrase) = Cardinality(UtterancesWith(model[k].phrase, low))
    /\ \A k \in 1..Len(tally) :
          /\ \E j \in 1..Len(model) : model[j].phrase = tally[k].phrase
          /\ tally[k].n >= 1
          /\ tally[k].n <= Len(low)
          /\ \A j \in 1..Len(tally) : tally[j].phrase = tally[k].phrase => j = k

\* C9: after any prefix of the transcript each cumulative tally maps a
\* phrase to the number of processed utterances whose lower-cased message
\* contains it (at most 1 per utterance); phrases in no utterance are
\* absent, every key is a lexicon phrase and every count is between 1 and
\* the number of utterances.
C9_TallyCountsUtterances ==
    LET low == LoweredUpTo(Processed)
    IN  /\ TallyIsPresenceCount(hiv_matches, HIV_KEYWORDS, low)
        /\ TallyIsPresenceCount(mh_matches, MENTAL_KEYWORDS, low)

\* two utterances that each say "panic" three times: the tally is 2
C9_Witness ==
    /\ Processed = 2
    /\ messages[1].message = "Panic attack gone, no panic, feeling better"
    /\ messages[2].message = messages[1].message
    /\ CounterGet(mh_matches, "panic") = 2
    /\ CounterGet(mh_matches, "panic attack") = 2
    /\ ~CounterHas(mh_matches, "hopeless")

\* C10: a result of analyse whose urgent list holds a flag in {suicide,
\* kill myself, self harm, hurt myself} has scores.mental >= 91, so the
\* CRITICAL tier only ever stands in for the HIGH tier.
C10_CriticalFlagMeansHighScore ==
    /\ (Returned /\ HasCriticalFlag(result[1].urgent)) => result[1].scores.mental >= 91
    /\ (pc = "reported" /\ recs[2] = "Mental Health CRITICAL") => result[1].scores.mental >= 70

\* the lowest such score: one utterance, "hurt myself" alone, 110 points
C10_Witness ==
    /\ pc = "reported"
    /\ Len(result[1].urgent) = 1
    /\ result[1].urgent[1].phrase = "hurt myself"
    /\ result[1].scores.mental = 91
    /\ recs[2] = "Mental Health CRITICAL"

====
